---- MODULE Spec2Model ----
(***************************************************************************)
(* A model of bspline/lib/BSpline.cpp: the smoothing cubic B-spline domain *)
(* (BSplineBase), the fitted spline (BSpline) and the banded LU            *)
(* factorization (LU_factor_banded).                                       *)
(*                                                                         *)
(* Numbers.  The program computes in float.  The model computes exactly:   *)
(*   - sample abscissas and wavelengths are integers;                      *)
(*   - DX is a reduced fraction <<dn, dd>> (DX = dn/dd);                   *)
(*   - an abscissa x is carried as the integer xq = x*dd;                  *)
(*   - a basis value is an integer in units of 1/(4*dn^3);                 *)
(*   - alpha is the integer wl^2 (wl^4, wl^6), in units of 1/(2*PI)^2      *)
(*     (^2, ^3);                                                           *)
(*   - an entry of Q is a pair <<a, p>> standing for                       *)
(*         DX * ( a * alphaUnit / 160  +  p / (16*dn^6) ),                 *)
(*     a collecting what calculateQ writes (the tables qparts and          *)
(*     qinterior are multiples of 1/160) and p what addP accumulates;      *)
(*   - the matrices handed to LU_factor_banded in SpecLU hold reduced      *)
(*     fractions <<n, d>>, d > 0.                                          *)
(* Rounding is therefore not modelled.                                     *)
(***************************************************************************)
EXTENDS Integers, Sequences, FiniteSets, TLC

(***************************************************************************)
(* Bounds of the model.                                                    *)
(***************************************************************************)
\* smallest and largest number of samples handed to setDomain
MinNX == 10
MaxNX == 12
\* number of setDomain calls on the one domain object (the constructor's included)
MaxSetDomain == 2
\* number of BSpline objects built from the domain by apply
MaxApply == 1
\* largest coefficient value drawn for the solved vector A
MaxCoef == 1

(***************************************************************************)
(* Program constants.                                                      *)
(***************************************************************************)
K == 1
BC == 2
fmin == 2
FirstNi == 9
RatioFloor == 4
RatioCeiling == 15
PointsPerNode == 2
Bands == 3

BoundaryConditions ==
    << << -4, -1, -1, -4 >>,
       <<  0,  1,  1,  0 >>,
       <<  2, -1, -1,  2 >> >>

\* qparts[d][c] * 160
qparts ==
    << << 18, 102, 102,  18 >>,
       <<  0,  21, -87,  21 >>,
       <<  0,   0, -36, -36 >>,
       <<  0,   0,   0,  -3 >> >>

\* qinterior[d] * 160
qinterior == << 240, -45, -72, -3 >>

VARIABLES
    X,          \* base->X, the copied sample abscissas
    NX,         \* number of samples
    waveLength, \* cutoff wavelength
    xmin, xmax, \* bounds found by Setup
    M,          \* number of node intervals
    DX,         \* node spacing, <<dn, dd>>
    alpha,      \* Alpha(waveLength)
    Q,          \* base->Q, rows and columns 0..M, entries <<a, p>>
    Nodes,      \* base->Nodes, the cached node abscissas, each <<xq, dd>>
    setupRet,   \* what Setup returned in the last setDomain (-1: never called)
    stages,     \* the calls the last setDomain made, in order
    refine,     \* the Ratio results of the refinement loop of the last Setup
    factorRet,  \* what LU_factor_banded returned to factor in the last setDomain
    pc,         \* "new" (under construction), "ready", "exit" (exit(1)), "abort"
    spline,     \* the BSpline object built by apply, or NoSpline
    ret,        \* what the last call returned
    nset,       \* setDomain calls so far
    napply,     \* apply calls so far
    LU,         \* SpecLU: the matrix being factored, rows and columns 1..n
    index,      \* SpecLU: the pivot vector
    col,        \* SpecLU: the column the loop of LU_factor_banded is at
    pivots,     \* SpecLU: the pivots selected so far, in order
    luRet,      \* SpecLU: the value LU_factor_banded returned (-1: still running)
    lupc,       \* SpecLU: "idle", "factoring", "ready", "exit"
    fitted      \* SpecLU: coefficient vectors produced from the domain

domVars == << X, NX, waveLength, xmin, xmax, M, DX, alpha, Q, Nodes, setupRet,
              stages, refine, factorRet, pc, spline, ret, nset, napply >>
luVars == << LU, index, col, pivots, luRet, lupc, fitted >>
vars == << X, NX, waveLength, xmin, xmax, M, DX, alpha, Q, Nodes, setupRet,
           stages, refine, factorRet, pc, spline, ret, nset, napply,
           LU, index, col, pivots, luRet, lupc, fitted >>

(***************************************************************************)
(* Arithmetic helpers.                                                     *)
(***************************************************************************)
Abs(a) == IF a < 0 THEN -a ELSE a
Min(a, b) == IF a < b THEN a ELSE b
Max(a, b) == IF a > b THEN a ELSE b
Cube(a) == a * a * a

RECURSIVE Gcd(_, _)
Gcd(a, b) == IF b = 0 THEN a ELSE Gcd(b, a % b)

\* the fraction n/d (d # 0) in lowest terms with a positive denominator
Frac(n, d) ==
    LET g == Gcd(Abs(n), Abs(d))
        s == IF d < 0 THEN -1 ELSE 1
    IN  IF n = 0 THEN << 0, 1 >> ELSE << s * (n \div g), s * (d \div g) >>

\* a/b < c/d for positive denominators
FracLess(f, g) == f[1] * g[2] < g[1] * f[2]

RECURSIVE SumTo(_, _, _)
SumTo(f(_), lo, hi) == IF lo > hi THEN 0 ELSE f(lo) + SumTo(f, lo + 1, hi)

(***************************************************************************)
(* BSplineBase::Ratio and BSplineBase::Setup.                              *)
(***************************************************************************)
\* Ratio with the sample check read as ratiod > 1.0
RatioStrict(ni, nx, span, wl) ==
    [ ni     |-> ni,
      deltax |-> Frac(span, ni),
      ratiof |-> Frac(span, ni * wl),
      ratiod |-> << nx, ni + 1 >>,
      ok     |-> FracLess(<< 1, 1 >>, << nx, ni + 1 >>) ]

\* deltax = (xmax - xmin)/ni, ratiof = deltax/waveLength,
\* ratiod = NX/(ni + 1); returns ratiod >= 1.0
Ratio(ni, nx, span, wl) ==
    [ ni     |-> ni,
      deltax |-> Frac(span, ni),
      ratiof |-> Frac(span, ni * wl),
      ratiod |-> << nx, ni + 1 >>,
      ok     |-> ~ FracLess(<< nx, ni + 1 >>, << 1, 1 >>) ]

\* do { if (!Ratio(++ni, ...)) return 0; } while (ratiof > fmin);
\* the result is the last Ratio computed
RECURSIVE Grow(_, _, _, _)
Grow(ni, nx, span, wl) ==
    LET r == Ratio(ni + 1, nx, span, wl)
    IN  IF ~ r.ok THEN r
        ELSE IF FracLess(<< fmin, 1 >>, r.ratiof) THEN Grow(ni + 1, nx, span, wl)
        ELSE r

\* the refinement loop going on only while both conditions hold
RefineMoreBoth(r) ==
    /\ FracLess(r.ratiof, << RatioFloor, 1 >>)
    /\ FracLess(<< PointsPerNode, 1 >>, r.ratiod)

\* the loop condition of the refinement loop: ratiof < 4 || ratiod > 2.0
RefineMore(r) ==
    \/ FracLess(r.ratiof, << RatioFloor, 1 >>)
    \/ FracLess(<< PointsPerNode, 1 >>, r.ratiod)

\* do { if (!Ratio(++ni, ..., &ratiod) || ratiof > 15.0)
\*        { Ratio(--ni, ...); break; } } while (ratiof < 4 || ratiod > 2.0);
\* the result: the count and spacing left in ni and deltax, and the Ratio
\* results of the loop in order
RECURSIVE Refine(_, _, _, _, _)
Refine(ni, nx, span, wl, log) ==
    LET r == Ratio(ni + 1, nx, span, wl)
        seen == Append(log, [ ni |-> r.ni, ratiof |-> r.ratiof,
                              ratiod |-> r.ratiod ])
    IN  IF ~ r.ok \/ FracLess(<< RatioCeiling, 1 >>, r.ratiof)
        THEN [ ni |-> ni, deltax |-> Ratio(ni, nx, span, wl).deltax, log |-> seen ]
        ELSE IF RefineMore(r) THEN Refine(ni + 1, nx, span, wl, seen)
        ELSE [ ni |-> ni + 1, deltax |-> r.deltax, log |-> seen ]

SeqMin(x) == CHOOSE v \in { x[i] : i \in 1..Len(x) } :
                 \A i \in 1..Len(x) : v <= x[i]
SeqMax(x) == CHOOSE v \in { x[i] : i \in 1..Len(x) } :
                 \A i \in 1..Len(x) : v >= x[i]

\* Setup on samples x and wavelength wl, in an object whose M and DX are
\* oldM and oldDX: xmin and xmax are always stored, M and DX only on success
Setup(x, wl, oldM, oldDX) ==
    LET lo == SeqMin(x)
        hi == SeqMax(x)
        nx == Len(x)
        failed == [ ret |-> 0, xmin |-> lo, xmax |-> hi, M |-> oldM,
                    DX |-> oldDX, refine |-> << >> ]
    IN  IF wl > hi - lo THEN failed
        ELSE LET g == Grow(FirstNi, nx, hi - lo, wl)
             IN  IF ~ g.ok THEN failed
                 ELSE LET f == Refine(g.ni, nx, hi - lo, wl, << >>)
                      IN  [ ret |-> 1, xmin |-> lo, xmax |-> hi, M |-> f.ni,
                            DX |-> f.deltax, refine |-> f.log ]

\* Alpha: (wl/(2 PI))^2, squared again for K = 2, cubed for K = 3
Alpha(wl) ==
    LET a == wl * wl
    IN  IF K = 2 THEN a * a ELSE IF K = 3 THEN a * a * a ELSE a

(***************************************************************************)
(* BSplineBase::Beta and BSplineBase::Basis.                               *)
(***************************************************************************)
\* the boundary coefficient of node m in a domain of m_ intervals
Beta(m, m_) ==
    IF m > 1 /\ m < m_ - 1 THEN 0
    ELSE LET mm == IF m >= m_ - 1 THEN m - (m_ - 3) ELSE m
         IN  BoundaryConditions[BC + 1][mm + 1]

\* the cubic kernel centred at node m, at abscissa xq/dd, times 4*dn^3:
\* z = |x - xm|/DX; if z < 2 then z := 2 - z, y := z^3/4, and if z - 1 > 0
\* then y := y - (z - 1)^3
Kernel(m, xq, d) ==
    LET dn == d.DX[1]
        dd == d.DX[2]
        k == Abs(xq - d.xmin * dd - m * dn)
        t == 2 * dn - k
    IN  IF k < 2 * dn
        THEN Cube(t) - (IF t - dn > 0 THEN 4 * Cube(t - dn) ELSE 0)
        ELSE 0

\* Basis(m, x): the kernel, plus Beta(m) * Basis(-1, x) for m in {0, 1},
\* else plus Beta(m) * Basis(M+1, x) for m in {M-1, M}
Basis(m, xq, d) ==
    Kernel(m, xq, d)
      + ( IF m = 0 \/ m = 1 THEN Beta(m, d.M) * Kernel(-1, xq, d)
          ELSE IF m = d.M - 1 \/ m = d.M
               THEN Beta(m, d.M) * Kernel(d.M + 1, xq, d)
          ELSE 0 )

(***************************************************************************)
(* BSplineBase::qDelta and BSplineBase::calculateQ.  Values are the a part *)
(* of an entry: multiples of DX * alphaUnit / 160.                         *)
(***************************************************************************)
\* the integral of the product of the basis derivatives of nodes m1 and m2,
\* restricted to the node domain 0..m_
qDelta(m1, m2, m_, a) ==
    LET lo == Min(m1, m2)
        hi == Max(m1, m2)
        part(m) == qparts[hi - lo + 1][m - lo + 3]
    IN  IF hi - lo > 3 THEN 0
        ELSE SumTo(part, Max(lo - 2, 0), Min(lo + 2, m_) - 1) * a

\* qdelta[k]: the interior constant qinterior[k] times DX * alpha
qdelta(k, a) == qinterior[k + 1] * a

\* a corner write that stores Q[i][j] only
PutOneSided(q_, i, j, q) == [ q_ EXCEPT ![i][j] = q ]

\* Q[i][j] = Q[j][i] = q
Put(q_, i, j, q) == [ [ q_ EXCEPT ![i][j] = q ] EXCEPT ![j][i] = q ]

\* the first loop of calculateQ: Q[i][i] = qDelta(i,i), and for j = 1..3
\* with i+j <= M, Q[i][i+j] = Q[i+j][i] = qDelta(i, i+j)
FillRaw(m_, a) ==
    [ r \in 0..m_ |-> [ c \in 0..m_ |->
        IF Abs(r - c) < 4 THEN qDelta(r, c, m_, a) ELSE 0 ] ]

\* the value the upper left pass computes for (i, j): q starts from 0.0
UpperLeftValue(i, j, m_, a) ==
    LET b1 == Beta(i, m_)
        b2 == Beta(j, m_)
    IN  0
        + (IF i + 1 < 4 THEN b2 * qdelta(i + 1, a) ELSE 0)
        + (IF j + 1 < 4 THEN b1 * qdelta(j + 1, a) ELSE 0)
        + b1 * b2 * qdelta(0, a)

\* the value the lower right pass computes for (i, j): q starts from
\* qdelta[i-j]; b1 = Beta[i - (M-1)], b2 = Beta[j - (M-1)] for j >= M-1, else 0
LowerRightValue(i, j, m_, a) ==
    LET b1 == Beta(i - (m_ - 1), m_)
        b2 == IF j >= m_ - 1 THEN Beta(j - (m_ - 1), m_) ELSE 0
    IN  qdelta(i - j, a)
        + (IF m_ + 1 - i < 4 THEN b2 * qdelta(m_ + 1 - i, a) ELSE 0)
        + (IF m_ + 1 - j < 4 THEN b1 * qdelta(m_ + 1 - j, a) ELSE 0)
        + b1 * b2 * qdelta(0, a)

\* for (i = 0; i <= 1; ++i) for (j = i; j < i+4; ++j) Q[j][i] = Q[i][j] = q
RECURSIVE UpperLeft(_, _, _, _, _)
UpperLeft(q_, i, j, m_, a) ==
    IF i > 1 THEN q_
    ELSE IF j >= i + 4 THEN UpperLeft(q_, i + 1, i + 1, m_, a)
    ELSE UpperLeft(Put(q_, i, j, UpperLeftValue(i, j, m_, a)), i, j + 1, m_, a)

\* the lower right pass writing row and column M for both values of i
RECURSIVE LowerRightRowM(_, _, _, _, _)
LowerRightRowM(q_, i, j, m_, a) ==
    IF i > m_ THEN q_
    ELSE IF j > i THEN LowerRightRowM(q_, i + 1, i + 1 - 3, m_, a)
    ELSE LowerRightRowM(Put(q_, m_, j, LowerRightValue(i, j, m_, a)), i, j + 1, m_, a)

\* for (i = M-1; i <= M; ++i) for (j = i-3; j <= i; ++j) Q[j][i] = Q[i][j] = q
RECURSIVE LowerRight(_, _, _, _, _)
LowerRight(q_, i, j, m_, a) ==
    IF i > m_ THEN q_
    ELSE IF j > i THEN LowerRight(q_, i + 1, i + 1 - 3, m_, a)
    ELSE LowerRight(Put(q_, i, j, LowerRightValue(i, j, m_, a)), i, j + 1, m_, a)

\* calculateQ: the raw fill, the upper left pass, the lower right pass
calculateQ(m_, a) ==
    LowerRight(UpperLeft(FillRaw(m_, a), 0, 0, m_, a), m_ - 1, m_ - 4, m_, a)

(***************************************************************************)
(* BSplineBase::addP.  Values are the p part of an entry: multiples of     *)
(* DX / (16*dn^6).                                                         *)
(***************************************************************************)
\* m = (x - xmin)/DX, truncated to int
NodeOf(x, d) == ((x - d.xmin) * d.DX[2]) \div d.DX[1]

\* the rows the outer loop of addP visits for a sample of node m0:
\* for (m = max(0, m0-2); m <= min(M, m+2); ++m), the bound read with the
\* running m
RowsOf(m0, m_) == { m \in 0..m_ : m >= Max(0, m0 - 2) }

\* P: for every sample and visited row m, P[m][m] += Basis(m)^2 * DX and, for
\* n = m+1..min(M, m+3), P[m][n] and P[n][m] += Basis(m) * Basis(n) * DX
MatrixP(x, d) ==
    LET nx == Len(x)
        bas == [ i \in 1..nx |-> [ m \in 0..d.M |-> Basis(m, x[i] * d.DX[2], d) ] ]
        rows == [ i \in 1..nx |-> RowsOf(NodeOf(x[i], d), d.M) ]
        upper(m, n) ==
            LET term(i) == IF m \in rows[i] THEN bas[i][m] * bas[i][n] ELSE 0
            IN  SumTo(term, 1, nx)
        P == [ m \in 0..d.M |-> [ n \in 0..d.M |->
                IF n >= m /\ n <= Min(d.M, m + 3) THEN upper(m, n)
                ELSE IF m > n /\ m <= Min(d.M, n + 3) THEN upper(n, m)
                ELSE 0 ] ]
    IN  \* the comparisons tabulate bas and rows, so each basis value is
        \* computed once per sample, not once per matrix entry
        IF bas = bas /\ rows = rows THEN P ELSE P

\* addP: base->Q += P
addP(q_, x, d) ==
    LET p == MatrixP(x, d)
    IN  [ r \in 0..d.M |-> [ c \in 0..d.M |-> << q_[r][c], p[r][c] >> ] ]

(***************************************************************************)
(* BSpline::evaluate, BSpline::curve, BSplineBase::nodes.                  *)
(***************************************************************************)
\* the domain fields Basis reads
Dom(xmin_, m_, dx_) == [ xmin |-> xmin_, M |-> m_, DX |-> dx_ ]

\* the abscissa xmin + n * DX, as xq
NodeX(n, d) == d.xmin * d.DX[2] + n * d.DX[1]

\* evaluate(x): the sum over i = 0..M of A[i] * Basis(i, x), times 4*dn^3
evaluate(s, xq) ==
    LET term(i) == s.A[i] * Basis(i, xq, s.dom)
    IN  SumTo(term, 0, s.dom.M)

\* curve() sampling the curve again on every call
CurveCacheAppend(s) ==
    s.spline \o [ n \in 1..(s.dom.M + 1) |-> evaluate(s, NodeX(n - 1, s.dom)) ]

\* the vector curve() leaves in s->spline: filled only when it is empty
CurveCache(s) ==
    IF Len(s.spline) = 0
    THEN [ n \in 1..(s.dom.M + 1) |-> evaluate(s, NodeX(n - 1, s.dom)) ]
    ELSE s.spline

\* the vector nodes() leaves in base->Nodes: filled only when it is empty
NodesCache(cache, d) ==
    IF Len(cache) = 0
    THEN [ i \in 1..(d.M + 1) |-> << NodeX(i - 1, d), d.DX[2] >> ]
    ELSE cache

\* coefficient(n): A[n] for 0 <= n <= M, else 0
coefficient(s, n) == IF 0 <= n /\ n <= s.dom.M THEN s.A[n] ELSE 0

(***************************************************************************)
(* Inputs.                                                                 *)
(***************************************************************************)
Shapes == { "up", "wide", "gap" }

\* n sample abscissas: the integers from 0, every second integer, or the
\* integers in descending order with one sample two further out
Samples(n, shape) ==
    [ i \in 1..n |->
        CASE shape = "up"   -> i - 1
          [] shape = "wide" -> 2 * (i - 1)
          [] shape = "gap"  -> IF i = 1 THEN n + 1 ELSE n - i ]

WaveLengths == { 1, 4, 30 }

\* values M and DX may hold before the first successful Setup: the
\* constructors do not initialise them
Uninit == { [ M |-> 4, DX |-> << 1, 1 >> ], [ M |-> 11, DX |-> << 3, 2 >> ] }

\* the outcomes of the zero test on a float pivot of P+Q, which exact
\* arithmetic does not decide: LU_factor_banded returns 0 or 1
FactorOutcomes == { 0, 1 }

\* coefficient vectors LU_solve may leave in s->A
Coefs(m_) == { [ i \in 0..m_ |-> c ] : c \in 0..MaxCoef }
                 \cup { [ i \in 0..m_ |-> c * (i % 3) - 1 ] : c \in 1..MaxCoef }

NoSpline == [ dom |-> Dom(0, 0, << 1, 1 >>), A |-> << >>, spline |-> << >>,
              live |-> FALSE ]
NoRet == [ op |-> "none", n |-> 0, val |-> << >> ]

(***************************************************************************)
(* The domain object.                                                      *)
(***************************************************************************)
LUIdle ==
    /\ LU = << >>
    /\ index = << >>
    /\ col = 0
    /\ pivots = << >>
    /\ luRet = -1
    /\ lupc = "idle"
    /\ fitted = 0

\* the object as the constructor finds it
Fresh(u) ==
    /\ X = << >>
    /\ NX = 0
    /\ waveLength = 0
    /\ xmin = 0
    /\ xmax = 0
    /\ M = u.M
    /\ DX = u.DX
    /\ alpha = 0
    /\ Q = << >>
    /\ Nodes = << >>
    /\ setupRet = -1
    /\ stages = << >>
    /\ refine = << >>
    /\ factorRet = -1
    /\ pc = "new"
    /\ spline = NoSpline
    /\ ret = NoRet
    /\ nset = 0
    /\ napply = 0

Init == (\E u \in Uninit : Fresh(u)) /\ LUIdle

\* the fields setDomain(x, nx, wl) leaves in an object whose M and DX were
\* oldM and oldDX: Reset, Copy, Setup, Alpha, calculateQ, addP, factor.
\* The value of Setup is not read.
DomainOf(x, wl, oldM, oldDX) ==
    LET s == Setup(x, wl, oldM, oldDX)
        a == Alpha(wl)
    IN  [ X |-> x, NX |-> Len(x), waveLength |-> wl, xmin |-> s.xmin,
          xmax |-> s.xmax, M |-> s.M, DX |-> s.DX, setupRet |-> s.ret,
          refine |-> s.refine, alpha |-> a,
          Q |-> addP(calculateQ(s.M, a), x, Dom(s.xmin, s.M, s.DX)),
          stages |-> << "Reset", "Copy", "Setup", "Alpha", "calculateQ",
                        "addP", "factor" >> ]

\* setDomain(x, nx, wl), also as called by the constructor; factor calls
\* exit(1) when LU_factor_banded returns non-zero
setDomain(x, wl) ==
    /\ pc \in { "new", "ready" }
    /\ nset < MaxSetDomain
    /\ \E d \in { DomainOf(x, wl, M, DX) } :
           /\ X' = d.X
           /\ NX' = d.NX
           /\ waveLength' = d.waveLength
           /\ xmin' = d.xmin
           /\ xmax' = d.xmax
           /\ M' = d.M
           /\ DX' = d.DX
           /\ setupRet' = d.setupRet
           /\ refine' = d.refine
           /\ alpha' = d.alpha
           /\ Q' = d.Q
           /\ stages' = d.stages
    /\ \E r \in FactorOutcomes :
          /\ factorRet' = r
          /\ pc' = IF r # 0 THEN "exit" ELSE "ready"
    /\ nset' = nset + 1
    /\ ret' = NoRet
    /\ UNCHANGED << Nodes, spline, napply >>
    /\ UNCHANGED luVars

\* nodes(&nn): fills the cache when it is empty, stores its size in nn,
\* asserts the size is M+1, returns the cache
nodes ==
    /\ pc = "ready"
    /\ LET cache == NodesCache(Nodes, Dom(xmin, M, DX))
       IN  /\ Nodes' = cache
           /\ ret' = [ op |-> "nodes", n |-> Len(cache), val |-> cache ]
           /\ pc' = IF Len(cache) = M + 1 THEN "ready" ELSE "abort"
    /\ UNCHANGED << X, NX, waveLength, xmin, xmax, M, DX, alpha, Q, setupRet,
                    stages, refine, factorRet, spline, nset, napply >>
    /\ UNCHANGED luVars

Next ==
    \/ \E n \in MinNX..MaxNX, shape \in Shapes, wl \in WaveLengths :
          setDomain(Samples(n, shape), wl)
    \/ nodes

Spec == Init /\ [][Next]_vars

(***************************************************************************)
(* The fitted spline: a domain object after its construction, and the      *)
(* BSpline objects built from it.                                          *)
(***************************************************************************)
InitFit ==
    /\ \E u \in Uninit, n \in MinNX..MaxNX, shape \in Shapes, wl \in WaveLengths :
          \E d \in { DomainOf(Samples(n, shape), wl, u.M, u.DX) } :
              /\ X = d.X
              /\ NX = d.NX
              /\ waveLength = d.waveLength
              /\ xmin = d.xmin
              /\ xmax = d.xmax
              /\ M = d.M
              /\ DX = d.DX
              /\ setupRet = d.setupRet
              /\ refine = d.refine
              /\ alpha = d.alpha
              /\ Q = d.Q
              /\ stages = d.stages
    /\ factorRet = 0
    /\ pc = "ready"
    /\ Nodes = << >>
    /\ spline = NoSpline
    /\ ret = NoRet
    /\ nset = 1
    /\ napply = 0
    /\ LUIdle

\* apply(y): new BSpline(*this, y), a copy of the domain with the solved
\* coefficients A and an empty curve cache
apply(c) ==
    /\ pc = "ready"
    /\ napply < MaxApply
    /\ spline' = [ dom |-> Dom(xmin, M, DX), A |-> c, spline |-> << >>,
                   live |-> TRUE ]
    /\ napply' = napply + 1
    /\ ret' = [ op |-> "apply", n |-> 0, val |-> << >> ]
    /\ UNCHANGED << X, NX, waveLength, xmin, xmax, M, DX, alpha, Q, Nodes,
                    setupRet, stages, refine, factorRet, pc, nset >>
    /\ UNCHANGED luVars

\* curve(&nx) on the fitted spline
curve ==
    /\ pc = "ready"
    /\ spline.live
    /\ LET cache == CurveCache(spline)
       IN  /\ spline' = [ spline EXCEPT !.spline = cache ]
           /\ ret' = [ op |-> "curve", n |-> Len(cache), val |-> cache ]
    /\ UNCHANGED << X, NX, waveLength, xmin, xmax, M, DX, alpha, Q, Nodes,
                    setupRet, stages, refine, factorRet, pc, nset, napply >>
    /\ UNCHANGED luVars

\* evaluate(x) on the fitted spline, x the abscissa of node n
evaluateAt(n) ==
    /\ pc = "ready"
    /\ spline.live
    /\ ret' = [ op |-> "evaluate", n |-> n,
                val |-> << evaluate(spline, NodeX(n, spline.dom)) >> ]
    /\ UNCHANGED << X, NX, waveLength, xmin, xmax, M, DX, alpha, Q, Nodes,
                    setupRet, stages, refine, factorRet, pc, spline, nset,
                    napply >>
    /\ UNCHANGED luVars

\* coefficient(n) on the fitted spline
coefficientAt(n) ==
    /\ pc = "ready"
    /\ spline.live
    /\ ret' = [ op |-> "coefficient", n |-> n,
                val |-> << coefficient(spline, n) >> ]
    /\ UNCHANGED << X, NX, waveLength, xmin, xmax, M, DX, alpha, Q, Nodes,
                    setupRet, stages, refine, factorRet, pc, spline, nset,
                    napply >>
    /\ UNCHANGED luVars

NextFit ==
    \/ \E c \in Coefs(M) : apply(c)
    \/ curve
    \/ \E n \in { 0, spline.dom.M } : evaluateAt(n)
    \/ \E n \in { -1, 0, spline.dom.M + 1 } : coefficientAt(n)

SpecFit == InitFit /\ [][NextFit]_vars

(***************************************************************************)
(* LU_factor_banded, as factor calls it on a copy of Q, and the BSpline    *)
(* constructor that follows.  Matrices are indexed from 1, as in the       *)
(* procedure; entries are fractions.                                       *)
(***************************************************************************)
FZero == << 0, 1 >>
FAbs(f) == << Abs(f[1]), f[2] >>
FSub(f, g) == Frac(f[1] * g[2] - g[1] * f[2], f[2] * g[2])
FMul(f, g) ==
    LET a == Frac(f[1], g[2])
        b == Frac(g[1], f[2])
    IN  << a[1] * b[1], a[2] * b[2] >>
FDiv(f, g) == FMul(f, Frac(g[2], g[1]))

\* the pivot search: jp = j, t = |A(j,j)|, and for i = j+1..min(j+bands, M)
\* a strictly larger |A(i,j)| moves jp to i
RECURSIVE PivotSearch(_, _, _, _, _)
PivotSearch(a_, j, i, last, jp) ==
    IF i > last THEN jp
    ELSE IF FracLess(FAbs(a_[jp][j]), FAbs(a_[i][j]))
         THEN PivotSearch(a_, j, i + 1, last, i)
         ELSE PivotSearch(a_, j, i + 1, last, jp)

PivotRow(a_, j, bands) ==
    PivotSearch(a_, j, j + 1, Min(j + bands, Len(a_)), j)

\* the singularity test reading the diagonal entry: A(j,j) == 0
ZeroDiagonal(a_, j, jp) == a_[j][j][1] = 0

\* the singularity test: A(jp,j) == 0
ZeroPivot(a_, j, jp) == a_[jp][j][1] = 0

\* swap rows j and jp over all columns
SwapRows(a_, j, jp) ==
    [ r \in 1..Len(a_) |-> IF r = j THEN a_[jp] ELSE IF r = jp THEN a_[j] ELSE a_[r] ]

\* for k = j+1..M: A(k,j) *= 1/A(j,j)
ScaleColumn(a_, j) ==
    [ r \in 1..Len(a_) |-> [ c \in 1..Len(a_) |->
        IF r > j /\ c = j THEN FDiv(a_[r][c], a_[j][j]) ELSE a_[r][c] ] ]

\* the rank-one update without the multiplier: A(ii,jj) -= A(j,jj)
EliminateUnscaled(a_, j) ==
    [ r \in 1..Len(a_) |-> [ c \in 1..Len(a_) |->
        IF r > j /\ c > j THEN FSub(a_[r][c], a_[j][c]) ELSE a_[r][c] ] ]

\* for ii = j+1..M, jj = j+1..N: A(ii,jj) -= A(ii,j) * A(j,jj)
Eliminate(a_, j) ==
    [ r \in 1..Len(a_) |-> [ c \in 1..Len(a_) |->
        IF r > j /\ c > j THEN FSub(a_[r][c], FMul(a_[r][j], a_[j][c]))
        ELSE a_[r][c] ] ]

\* the body of the loop over j after a non-zero pivot in row jp
ColumnStep(a_, j, jp) ==
    LET swapped == IF jp # j THEN SwapRows(a_, j, jp) ELSE a_
        scaled == IF j < Len(a_) THEN ScaleColumn(swapped, j) ELSE swapped
    IN  IF j < Len(a_) THEN Eliminate(scaled, j) ELSE scaled

\* size of the matrices factored in SpecLU
LUSize == 6

\* the values of the entries within the band
EntryValues == { -1, 0, 2 }

\* a matrix with constant diagonals, zero outside 3 positions of the diagonal
BandMatrix(f) ==
    [ r \in 1..LUSize |-> [ c \in 1..LUSize |->
        IF Abs(r - c) > Bands THEN FZero ELSE << f[r - c], 1 >> ] ]

DomIdle ==
    /\ X = << >>
    /\ NX = 0
    /\ waveLength = 0
    /\ xmin = 0
    /\ xmax = 0
    /\ M = LUSize - 1
    /\ DX = << 1, 1 >>
    /\ alpha = 0
    /\ Q = << >>
    /\ Nodes = << >>
    /\ setupRet = -1
    /\ stages = << >>
    /\ refine = << >>
    /\ factorRet = -1
    /\ pc = "new"
    /\ spline = NoSpline
    /\ ret = NoRet
    /\ nset = 0
    /\ napply = 0

\* factor has copied Q into LU, sized index, and entered LU_factor_banded
InitLU ==
    /\ DomIdle
    /\ \E f \in [ (-Bands)..Bands -> EntryValues ] : LU = BandMatrix(f)
    /\ index = [ r \in 1..LUSize |-> 0 ]
    /\ col = 1
    /\ pivots = << >>
    /\ luRet = -1
    /\ lupc = "factoring"
    /\ fitted = 0

\* column col finds a zero pivot: LU_factor_banded returns 1 and factor
\* calls exit(1)
ColumnSingular ==
    /\ lupc = "factoring"
    /\ \E jp \in { PivotRow(LU, col, Bands) } :
          /\ ZeroPivot(LU, col, jp)
          /\ index' = [ index EXCEPT ![col] = jp ]
          /\ pivots' = Append(pivots, LU[jp][col])
    /\ luRet' = 1
    /\ lupc' = "exit"
    /\ UNCHANGED << LU, col, fitted >>
    /\ UNCHANGED domVars

\* column col finds a non-zero pivot: swap, scale, rank-one update; after
\* the last column LU_factor_banded returns 0 and factor returns
ColumnEliminated ==
    /\ lupc = "factoring"
    /\ \E jp \in { PivotRow(LU, col, Bands) } :
          /\ ~ ZeroPivot(LU, col, jp)
          /\ index' = [ index EXCEPT ![col] = jp ]
          /\ pivots' = Append(pivots, LU[jp][col])
          /\ LU' = ColumnStep(LU, col, jp)
    /\ IF col = Len(LU)
       THEN /\ luRet' = 0
            /\ lupc' = "ready"
            /\ col' = col
       ELSE /\ col' = col + 1
            /\ UNCHANGED << luRet, lupc >>
    /\ UNCHANGED fitted
    /\ UNCHANGED domVars

\* new BSpline(domain, y): LU_solve with the stored factors leaves the
\* coefficients in s->A
Fit ==
    /\ lupc = "ready"
    /\ fitted < MaxApply
    /\ fitted' = fitted + 1
    /\ UNCHANGED << LU, index, col, pivots, luRet, lupc >>
    /\ UNCHANGED domVars

NextLU ==
    \/ ColumnSingular
    \/ ColumnEliminated
    \/ Fit

SpecLU == InitLU /\ [][NextLU]_vars

(***************************************************************************)
(* Properties.                                                             *)
(***************************************************************************)
Span == xmax - xmin

\* the stages of setDomain that build the system matrix and its factors
Builders == { "calculateQ", "addP", "factor" }

\* C1: when setDomain is called with a wavelength above xmax - xmin, Setup
\* fails and setDomain stops there: none of calculateQ, addP, factor runs.
C1_FailedSetupBuildsNothing ==
    (nset > 0 /\ waveLength > Span)
        => /\ setupRet = 0
           /\ \A k \in 1..Len(stages) : stages[k] \notin Builders

\* the least interval count from 10 at which the growth loop stops:
\* (xmax - xmin)/(ni * waveLength) <= 2.0
GrowthEnd ==
    CHOOSE ni \in (FirstNi + 1)..(FirstNi + 1 + Span) :
        /\ Span <= fmin * ni * waveLength
        /\ \A k \in (FirstNi + 1)..(ni - 1) : Span > fmin * k * waveLength

\* C2 as stated: for every positive wavelength not above xmax - xmin, Setup
\* succeeds with M >= 9 and DX = (xmax - xmin)/M.
C2_DomainCheckSuffices ==
    (nset > 0 /\ waveLength > 0 /\ waveLength <= Span)
        => /\ setupRet = 1
           /\ M >= FirstNi
           /\ DX = Frac(Span, M)

\* C2 as amended: for every positive wavelength not above xmax - xmin, Setup
\* succeeds exactly when there is at least one sample per node at the count
\* where the growth loop stops (never with fewer than 11 samples), and then
\* M >= 9 and DX = (xmax - xmin)/M.
C2_SetupSucceedsIffDense ==
    (nset > 0 /\ waveLength > 0 /\ waveLength <= Span)
        => /\ (setupRet = 1) <=> (NX >= GrowthEnd + 1)
           /\ NX < FirstNi + 2 => setupRet = 0
           /\ setupRet = 1 => (M >= FirstNi /\ DX = Frac(Span, M))

\* C2 witness: a successful Setup whose growth loop ran more than once
C2_Witness ==
    /\ nset > 0
    /\ waveLength > 0
    /\ waveLength <= Span
    /\ setupRet = 1
    /\ GrowthEnd > FirstNi + 1
    /\ M >= FirstNi

Symmetric(q_, m_) == \A i \in 0..m_, j \in 0..m_ : q_[i][j] = q_[j][i]

\* C3: after a successful Setup, Q is symmetric after calculateQ and after
\* addP has added P.
C3_QSymmetric ==
    (nset > 0 /\ setupRet = 1)
        => /\ Symmetric(calculateQ(M, alpha), M)
           /\ Symmetric(Q, M)

\* C3 witness: a built Q whose off-diagonal entries carry both parts
C3_Witness ==
    /\ nset > 0
    /\ setupRet = 1
    /\ Q[0][1][1] # 0
    /\ Q[0][1][2] # 0
    /\ Q[M][M - 2][2] # 0

\* C4: after a successful Setup, every entry of Q more than 3 positions from
\* the diagonal is zero, after calculateQ and after addP.
C4_QBanded ==
    (nset > 0 /\ setupRet = 1)
        => \A i \in 0..M, j \in 0..M :
              Abs(i - j) > Bands
                  => /\ calculateQ(M, alpha)[i][j] = 0
                     /\ Q[i][j] = << 0, 0 >>

\* C4 witness: a built Q with entries at the edge of the band and beyond it
C4_Witness ==
    /\ nset > 0
    /\ setupRet = 1
    /\ M > Bands + 1
    /\ Q[0][Bands] # << 0, 0 >>
    /\ Q[M][M - Bands] # << 0, 0 >>
    /\ Q[2][2 + Bands][2] # 0

\* the correction of a corner entry: the per-offset constants combined with
\* Beta of the row node and Beta of the column node
UpperLeftCorrection(i, j, m_, a) ==
    LET b1 == Beta(i, m_)
        b2 == Beta(j, m_)
    IN  (IF i + 1 < 4 THEN b2 * qdelta(i + 1, a) ELSE 0)
        + (IF j + 1 < 4 THEN b1 * qdelta(j + 1, a) ELSE 0)
        + b1 * b2 * qdelta(0, a)

LowerRightCorrection(i, j, m_, a) ==
    LET b1 == Beta(i, m_)
        b2 == Beta(j, m_)
    IN  (IF m_ + 1 - i < 4 THEN b2 * qdelta(m_ + 1 - i, a) ELSE 0)
        + (IF m_ + 1 - j < 4 THEN b1 * qdelta(m_ + 1 - j, a) ELSE 0)
        + b1 * b2 * qdelta(0, a)

\* C9: after calculateQ every entry of the two corner blocks is the raw
\* value qDelta(i,j) plus its correction, the lower right block with the
\* Beta values of nodes M-1 and M.
C9_CornersAddCorrection ==
    (nset > 0 /\ setupRet = 1)
        => LET cq == calculateQ(M, alpha)
           IN  /\ \A i \in 0..1 : \A j \in i..(i + 3) :
                     cq[i][j] = qDelta(i, j, M, alpha)
                                  + UpperLeftCorrection(i, j, M, alpha)
               /\ \A i \in (M - 1)..M : \A j \in (i - 3)..i :
                     cq[i][j] = qDelta(i, j, M, alpha)
                                  + LowerRightCorrection(i, j, M, alpha)

\* the comparisons of the refinement loop, on a logged Ratio result
Covered(r) == r.ratiod[1] >= r.ratiod[2]
OverCeiling(r) == r.ratiof[1] > RatioCeiling * r.ratiof[2]
BelowFloor(r) == r.ratiof[1] < RatioFloor * r.ratiof[2]
Dense(r) == r.ratiod[1] > PointsPerNode * r.ratiod[2]

\* C7 as stated: the count is increased again only while both conditions
\* hold, points per interval above 2.0 and ratio below the floor 4.
C7_RefinesWhileBoth ==
    (nset > 0 /\ setupRet = 1)
        => \A k \in 1..(Len(refine) - 1) :
              BelowFloor(refine[k]) /\ Dense(refine[k])

\* C7 as amended: the count is increased again while at least one of the
\* two conditions holds, as long as there is a sample per node and the ratio
\* is not above the ceiling 15; when that check fails the count is backed off
\* by exactly one and M and DX are stored from the backed-off count; when
\* neither condition holds the loop ends with M and DX from the last count.
C7_RefinesWhileEither ==
    (nset > 0 /\ setupRet = 1)
        => /\ Len(refine) >= 1
           /\ refine[1].ni = GrowthEnd + 1
           /\ \A k \in 1..(Len(refine) - 1) :
                 /\ refine[k + 1].ni = refine[k].ni + 1
                 /\ Covered(refine[k])
                 /\ ~ OverCeiling(refine[k])
                 /\ BelowFloor(refine[k]) \/ Dense(refine[k])
           /\ LET last == refine[Len(refine)]
              IN  IF ~ Covered(last) \/ OverCeiling(last)
                  THEN M = last.ni - 1 /\ DX = Frac(Span, M)
                  ELSE /\ ~ BelowFloor(last)
                       /\ ~ Dense(last)
                       /\ M = last.ni
                       /\ DX = Frac(Span, M)

\* C7 witness: a refinement that went on with at most 2 points per interval
\* and then backed off
C7_Witness ==
    /\ nset > 0
    /\ setupRet = 1
    /\ Len(refine) >= 2
    /\ ~ Dense(refine[1])
    /\ ~ Covered(refine[Len(refine)])
    /\ M = refine[Len(refine)].ni - 1

\* C10: nodes() returns M+1 abscissas, the i-th being xmin + i*DX of the
\* current domain, and its assertion holds.
C10_NodesMatchDomain ==
    /\ pc # "abort"
    /\ ret.op = "nodes"
          => /\ ret.n = M + 1
             /\ ret.val = NodesCache(<< >>, Dom(xmin, M, DX))

\* C6: once curve() has filled the cache, the cache holds M+1 values, the
\* n-th being evaluate(xmin + n*DX); curve() returns the cache and its
\* length; no later curve, evaluate or coefficient call changes the cache
\* or the coefficients.
C6_CurveCached ==
    /\ [](spline.live /\ Len(spline.spline) > 0
            => /\ Len(spline.spline) = spline.dom.M + 1
               /\ \A n \in 0..spline.dom.M :
                     spline.spline[n + 1] = evaluate(spline, NodeX(n, spline.dom)))
    /\ [](ret.op = "curve"
            => ret.n = spline.dom.M + 1 /\ ret.val = spline.spline)
    /\ [][ (Len(spline.spline) > 0 /\ ret'.op \in { "curve", "evaluate", "coefficient" })
              => spline' = spline ]_vars

\* C6 witness: a call made after curve() filled a cache with non-zero values
C6_Witness ==
    /\ spline.live
    /\ Len(spline.spline) = spline.dom.M + 1
    /\ spline.spline[1] # 0
    /\ spline.spline[spline.dom.M + 1] # spline.spline[1]
    /\ ret.op = "coefficient"

IsZero(f) == f[1] = 0

\* C5: a zero pivot makes LU_factor_banded return 1 and factor exit, and no
\* coefficient vector is produced; it returns 1 only on a zero pivot and 0
\* only when every selected pivot was non-zero.
C5_ZeroPivotIsFatal ==
    /\ (\E k \in 1..Len(pivots) : IsZero(pivots[k]))
          => (luRet = 1 /\ lupc = "exit" /\ fitted = 0)
    /\ luRet = 1 => (lupc = "exit" /\ IsZero(pivots[Len(pivots)]))
    /\ luRet = 0 => /\ Len(pivots) = Len(LU)
                    /\ \A k \in 1..Len(pivots) : ~ IsZero(pivots[k])
    /\ fitted > 0 => luRet = 0

\* C5 witness: a zero pivot met after some columns were eliminated
C5_Witness ==
    /\ lupc = "exit"
    /\ Len(pivots) > 2
    /\ IsZero(pivots[Len(pivots)])
    /\ \E r \in col..Len(LU) : ~ IsZero(LU[r][Len(LU)])

\* C8: at the pivot search of column col every entry of the column below
\* the band is zero, and the pivot found within the band is the largest
\* entry of the whole column at or below the diagonal.
C8_BandKept ==
    lupc = "factoring"
        => /\ \A i \in 1..Len(LU) : i > col + Bands => IsZero(LU[i][col])
           /\ \A i \in col..Len(LU) :
                 ~ FracLess(FAbs(LU[PivotRow(LU, col, Bands)][col]),
                            FAbs(LU[i][col]))

\* C8 witness: a pivot search after a row swap, with rows below the band
C8_Witness ==
    /\ lupc = "factoring"
    /\ col > 1
    /\ col + Bands < Len(LU)
    /\ index[1] # 1
    /\ index[col - 1] # col - 1
    /\ \E i \in (col + 1)..Len(LU) : ~ IsZero(LU[i][col])

====
